---- MODULE Spec2Model ----
(***************************************************************************)
(* Model of mslib/mss_util.py: the satellite track reader                  *)
(* (read_nasa_satellite_prediction), the three vertical section            *)
(* interpolators (interpolate_vertsec, interpolate_vertsec2,               *)
(* interpolate_vertsec3) and fix_angle.                                    *)
(*                                                                         *)
(* Three specifications share the module: SpecSeg (track reader),          *)
(* SpecInterp (interpolators) and SpecAngle (fix_angle).  Each leaves the  *)
(* variables of the other two at their idle values.                        *)
(***************************************************************************)
EXTENDS Integers, Sequences, FiniteSets, TLC

VARIABLES
    \* read_nasa_satellite_prediction
    satlines,   \* the data rows satlines[2:], each already split into tokens
    idx,        \* position of the for loop: index of the next row to read
    segment,    \* the accumulator dictionary
    result,     \* the list of finalized segments
    seg_pc,     \* "idle" | "loop" | "done" | "raised"
    placed,     \* history: for each row read, the number of the segment it was
                \* appended to (0: the row was appended to no segment)
    \* fix_angle
    ang_in,     \* the argument
    ang,        \* the local variable ang
    ang_pc,     \* "idle" | "while_gt" | "while_lt" | "done"
    ang_iter,   \* history: loop iterations executed so far
    \* interpolate_vertsec, interpolate_vertsec2, interpolate_vertsec3
    data3D,       \* data3D[level][lat index][lon index]
    data3D_lats,  \* the grid's latitude axis
    data3D_lons,  \* the grid's longitude axis
    lats,         \* the query path's latitudes
    lons,         \* the query path's longitudes
    curtain,      \* the returned curtain[level][position], <<>> before the return
    int_fn,       \* the function called: "none" | "vertsec" | "vertsec2" | "vertsec3"
    int_pc        \* "idle" | "ready" | "returned" | "raised"

segvars == <<satlines, idx, segment, result, seg_pc, placed>>
angvars == <<ang_in, ang, ang_pc, ang_iter>>
intvars == <<data3D, data3D_lats, data3D_lons, lats, lons, curtain, int_fn, int_pc>>
vars == <<segvars, angvars, intvars>>

Last(s) == s[Len(s)]

(***************************************************************************)
(* Tokens.  A token is one whitespace-delimited field of a row.  ok says   *)
(* whether the text parses (float() for a numeric column, strptime         *)
(* "%H:%M:%S" for the time column); v is the number it parses to (seconds  *)
(* since midnight for the time column).                                    *)
(***************************************************************************)
Num(v) == [ok |-> TRUE, v |-> v]
Garbled == [ok |-> FALSE, v |-> 0]

\* ------------------------------------------------------------------------
\* Bounds and program constants
\* ------------------------------------------------------------------------
MaxLines == 3
\* fix_angle is called with whole degrees in -MaxAngle..MaxAngle
MaxAngle == 800
\* number of model levels of data3D
NLev == 2
\* number of positions of the query path
PathLen == 2

\* seg_diff_time = timedelta(minutes=10), in seconds
SegDiffTime == 600
\* the missing-value code handed to masked_equal
Sentinel == -999
\* the 360 of fix_angle
FullTurn == 360

\* ------------------------------------------------------------------------
\* read_nasa_satellite_prediction: inputs
\* ------------------------------------------------------------------------

\* Time-of-day columns of the rows: 10:00:00 is taken as second 0, so the
\* set holds 10:00:00, 10:05:00, 10:10:00, 10:10:01, 10:20:00 and 10:20:01,
\* and one text that is no %H:%M:%S time.
TimeTokens == {Num(0), Num(300), Num(600), Num(601), Num(1200), Num(1201), Garbled}

\* The columns after the time: lat, lon, heading and, in the 8-column shape,
\* the left and right swath lat/lon.
FieldShapes ==
    { <<Num(10), Num(20), Num(90)>>,                               \* 4 columns
      <<Num(Sentinel), Num(Sentinel), Num(Sentinel)>>,             \* 4, missing
      <<Num(10), Num(20), Garbled>>,                               \* 4, bad heading
      <<Num(10), Num(20), Num(90),
        Num(11), Num(Sentinel), Num(Sentinel), Num(22)>>,          \* 8 columns
      <<Num(10), Num(20), Num(90), Num(11)>>,                      \* 5 columns
      <<Num(10), Num(20)>> }                                       \* 3 columns

\* A row is line.split(): the time token followed by the field tokens.  A
\* garbled time is paired with one field shape only (the fields are never
\* looked at when the time does not parse).
Rows ==
    { <<t>> \o f : t \in TimeTokens \ {Garbled}, f \in FieldShapes }
      \cup { <<Garbled, Num(10), Num(20), Num(90)>> }

\* ------------------------------------------------------------------------
\* read_nasa_satellite_prediction: helpers
\* ------------------------------------------------------------------------

EmptySegment ==
    [utc |-> <<>>, satpos |-> <<>>, heading |-> <<>>,
     swath_left |-> <<>>, swath_right |-> <<>>]

\* values = line.split() for the row the loop is at
Values == satlines[idx]

\* dt.strptime(values[0], "%H:%M:%S") succeeds; values[0] itself raises
\* IndexError on a row with no token
TimeParses(values) == Len(values) >= 1 /\ values[1].ok

\* time = date + (strptime(values[0]) - basedate), seconds after the date
TimeOf(values) == values[1].v

\* The gap test with <= in place of <
AppendsToCurrentInclusive(seg, time) ==
    IF Len(seg.utc) = 0 THEN TRUE ELSE (time - Last(seg.utc)) <= SegDiffTime

\* len(segment["utc"]) == 0 or (time - segment["utc"][-1]) < seg_diff_time
AppendsToCurrent(seg, time) ==
    IF Len(seg.utc) = 0 THEN TRUE ELSE (time - Last(seg.utc)) < SegDiffTime

\* The float() calls and subscripts of the append branch all succeed:
\* values[1..3] always, values[4..7] only when len(values) == 8.  Python's
\* values[k] is values[k + 1] here.
FieldsParse(values) ==
    /\ Len(values) >= 4
    /\ \A k \in 2..4 : values[k].ok
    /\ Len(values) = 8 => \A k \in 5..8 : values[k].ok

\* [-1. * float(values[2]), float(values[1])]
SatPos(values) == << -1 * values[3].v, values[2].v >>

SwathLeft(values) ==
    IF Len(values) = 8 THEN << -1 * values[6].v, values[5].v >> ELSE SatPos(values)

SwathRight(values) ==
    IF Len(values) = 8 THEN << -1 * values[8].v, values[7].v >> ELSE SatPos(values)

\* The append branch
AppendRecord(seg, values) ==
    [utc         |-> Append(seg.utc, TimeOf(values)),
     satpos      |-> Append(seg.satpos, SatPos(values)),
     heading     |-> Append(seg.heading, values[4].v),
     swath_left  |-> Append(seg.swath_left, SwathLeft(values)),
     swath_right |-> Append(seg.swath_right, SwathRight(values))]

\* np.ma.masked_equal(x, -999.) on one number: the value with its mask bit
MaskedEqual(x) == [v |-> x, m |-> (x = Sentinel)]

MaskedPairs(ps) == [k \in 1..Len(ps) |-> << MaskedEqual(ps[k][1]), MaskedEqual(ps[k][2]) >>]

\* The conversion of the accumulator to arrays before it is stored
Finalize(seg) ==
    [utc         |-> seg.utc,
     satpos      |-> MaskedPairs(seg.satpos),
     heading     |-> [k \in 1..Len(seg.heading) |-> MaskedEqual(seg.heading[k])],
     swath_left  |-> MaskedPairs(seg.swath_left),
     swath_right |-> MaskedPairs(seg.swath_right)]

\* ------------------------------------------------------------------------
\* read_nasa_satellite_prediction: the loop
\* ------------------------------------------------------------------------

AngIdle == ang_in = 0 /\ ang = 0 /\ ang_pc = "idle" /\ ang_iter = 0

IntIdle ==
    /\ data3D = <<>> /\ data3D_lats = <<>> /\ data3D_lons = <<>>
    /\ lats = <<>> /\ lons = <<>> /\ curtain = <<>>
    /\ int_fn = "none" /\ int_pc = "idle"

\* The state before the for loop: the rows are read, result and segment
\* are empty.
InitSeg ==
    /\ \E n \in 0..MaxLines : satlines \in [1..n -> Rows]
    /\ idx = 1
    /\ segment = EmptySegment
    /\ result = <<>>
    /\ seg_pc = "loop"
    /\ placed = <<>>
    /\ AngIdle
    /\ IntIdle

\* One iteration taking the append branch
SegAppend ==
    /\ seg_pc = "loop"
    /\ idx <= Len(satlines)
    /\ TimeParses(Values)
    /\ AppendsToCurrent(segment, TimeOf(Values))
    /\ FieldsParse(Values)
    /\ segment' = AppendRecord(segment, Values)
    /\ placed' = Append(placed, Len(result) + 1)
    /\ idx' = idx + 1
    /\ UNCHANGED <<satlines, result, seg_pc>>

\* One iteration taking the else branch: the accumulator is converted and
\* stored, and a new empty accumulator is bound; the row itself is not
\* appended to anything.
SegFlush ==
    /\ seg_pc = "loop"
    /\ idx <= Len(satlines)
    /\ TimeParses(Values)
    /\ ~AppendsToCurrent(segment, TimeOf(Values))
    /\ result' = Append(result, Finalize(segment))
    /\ segment' = EmptySegment
    /\ placed' = Append(placed, 0)
    /\ idx' = idx + 1
    /\ UNCHANGED <<satlines, seg_pc>>

\* An iteration in which strptime, float() or a subscript raises: the
\* exception leaves the function, nothing is returned.
SegRaise ==
    /\ seg_pc = "loop"
    /\ idx <= Len(satlines)
    /\ \/ ~TimeParses(Values)
       \/ /\ TimeParses(Values)
          /\ AppendsToCurrent(segment, TimeOf(Values))
          /\ ~FieldsParse(Values)
    /\ seg_pc' = "raised"
    /\ UNCHANGED <<satlines, idx, segment, result, placed>>

\* The loop is exhausted: return result
SegReturn ==
    /\ seg_pc = "loop"
    /\ idx > Len(satlines)
    /\ seg_pc' = "done"
    /\ UNCHANGED <<satlines, idx, segment, result, placed>>

NextSeg ==
    \/ SegAppend /\ UNCHANGED <<angvars, intvars>>
    \/ SegFlush /\ UNCHANGED <<angvars, intvars>>
    \/ SegRaise /\ UNCHANGED <<angvars, intvars>>
    \/ SegReturn /\ UNCHANGED <<angvars, intvars>>

SpecSeg == InitSeg /\ [][NextSeg]_vars

\* ------------------------------------------------------------------------
\* read_nasa_satellite_prediction: properties
\* ------------------------------------------------------------------------

\* A row of one of the two recognized shapes (4 or 8 columns) all of whose
\* tokens parse
WellFormed(values) ==
    /\ Len(values) \in {4, 8}
    /\ \A k \in 1..Len(values) : values[k].ok

\* The rows appended to segment number n, in input order
RECURSIVE RowsOfUpTo(_, _)
RowsOfUpTo(n, i) ==
    IF i = 0 THEN <<>>
    ELSE IF placed[i] = n THEN Append(RowsOfUpTo(n, i - 1), i)
    ELSE RowsOfUpTo(n, i - 1)

RowsOf(n) == RowsOfUpTo(n, Len(placed))

\* The row the loop is at is well formed and lies 10 minutes or more after
\* the last record of the non-empty accumulator
AtGapRecord ==
    /\ seg_pc = "loop"
    /\ idx <= Len(satlines)
    /\ WellFormed(Values)
    /\ Len(segment.utc) > 0
    /\ TimeOf(Values) - Last(segment.utc) >= SegDiffTime

\* C1 (as stated): when the row being read lies 10 minutes or more after
\* the last record of the non-empty current segment, the step that reads it
\* emits the finalized current segment and leaves a new current segment
\* holding exactly that row, in all five sequences.
C1_GapRecordOpensSegment ==
    [][AtGapRecord =>
         /\ result' = Append(result, Finalize(segment))
         /\ segment' = AppendRecord(EmptySegment, Values)]_vars

\* C2 (as stated): at return, a non-empty accumulator has been finalized and
\* emitted as the last segment of the returned list.
C2_TrailingSegmentEmitted ==
    (seg_pc = "done" /\ Len(segment.utc) > 0) =>
        (Len(result) > 0 /\ Last(result) = Finalize(segment))

\* C3 (as stated): two consecutive well-formed rows exactly 10 minutes apart
\* are in the same segment; two consecutive well-formed rows 10 minutes and
\* 1 second apart are not.
C3_BoundaryExclusive ==
    \A i \in 1..(Len(placed) - 1) :
        (WellFormed(satlines[i]) /\ WellFormed(satlines[i + 1])) =>
            LET gap == TimeOf(satlines[i + 1]) - TimeOf(satlines[i])
            IN  /\ gap = SegDiffTime => (placed[i] # 0 /\ placed[i + 1] = placed[i])
                /\ gap = SegDiffTime + 1 => placed[i + 1] # placed[i]

\* The mask bits of segment s agree with the sentinel in row values, which
\* is the k-th record of s
SentinelsMasked(s, k, values) ==
    /\ values[2].v = Sentinel => s.satpos[k][2].m
    /\ values[3].v = Sentinel => s.satpos[k][1].m
    /\ values[4].v = Sentinel => s.heading[k].m
    /\ Len(values) = 8 =>
        /\ values[5].v = Sentinel => s.swath_left[k][2].m
        /\ values[6].v = Sentinel => s.swath_left[k][1].m
        /\ values[7].v = Sentinel => s.swath_right[k][2].m
        /\ values[8].v = Sentinel => s.swath_right[k][1].m

\* C4 (as stated): in every emitted segment the five sequences have one
\* entry per record of the segment, and every field whose source value is
\* -999 is masked at the index of its record.
C4_SentinelsMasked ==
    \A n \in 1..Len(result) :
        LET rows == RowsOf(n)
            s == result[n]
        IN  /\ Len(s.utc) = Len(rows)
            /\ Len(s.satpos) = Len(rows)
            /\ Len(s.heading) = Len(rows)
            /\ Len(s.swath_left) = Len(rows)
            /\ Len(s.swath_right) = Len(rows)
            /\ \A k \in 1..Len(rows) : SentinelsMasked(s, k, satlines[rows[k]])

\* C8 (as stated): no malformed row is passed over: while the function has
\* not raised, every row it has read is well formed.
C8_MalformedRowRaises ==
    \A i \in 1..Len(satlines) :
        (i < idx /\ ~WellFormed(satlines[i])) => seg_pc = "raised"

\* C9 (as stated): in every emitted segment the utc timestamps are
\* non-decreasing and consecutive records are less than 10 minutes apart.
C9_TimeOrdered ==
    \A n \in 1..Len(result) :
        \A k \in 1..(Len(result[n].utc) - 1) :
            /\ result[n].utc[k] <= result[n].utc[k + 1]
            /\ result[n].utc[k + 1] - result[n].utc[k] < SegDiffTime

\* C9 (amended): every emitted segment holds its records in input order,
\* and each record's time minus its predecessor's is less than 10 minutes;
\* the difference may be negative, so the timestamps are non-decreasing
\* only where the input rows' times are.
C9_InputOrderContiguous ==
    \A n \in 1..Len(result) :
        LET rows == RowsOf(n)
            utc == result[n].utc
        IN  /\ Len(utc) = Len(rows)
            /\ \A k \in 1..Len(rows) : utc[k] = TimeOf(satlines[rows[k]])
            /\ \A k \in 1..(Len(utc) - 1) : utc[k + 1] - utc[k] < SegDiffTime

\* C9 witness: an emitted segment holds two records, the second earlier
\* than the first.
C9_Witness ==
    \E n \in 1..Len(result) :
        Len(result[n].utc) >= 2 /\ result[n].utc[2] < result[n].utc[1]

\* ------------------------------------------------------------------------
\* fix_angle
\* ------------------------------------------------------------------------

SegIdle ==
    /\ satlines = <<>> /\ idx = 0 /\ segment = EmptySegment
    /\ result = <<>> /\ seg_pc = "idle" /\ placed = <<>>

InitAngle ==
    /\ ang_in \in -MaxAngle..MaxAngle
    /\ ang = ang_in
    /\ ang_pc = "while_gt"
    /\ ang_iter = 0
    /\ SegIdle
    /\ IntIdle

\* The first loop's condition with >= in place of >
AboveRangeInclusive(a) == a >= FullTurn

\* The condition of the first while loop
AboveRange(a) == a > FullTurn

\* The condition of the second while loop
BelowRange(a) == a < 0

\* while ang > 360: ang -= 360
AngSubtract ==
    /\ ang_pc = "while_gt"
    /\ AboveRange(ang)
    /\ ang' = ang - FullTurn
    /\ ang_iter' = ang_iter + 1
    /\ UNCHANGED <<ang_in, ang_pc>>

\* The first loop's condition is false: go on to the second loop
AngFirstLoopExit ==
    /\ ang_pc = "while_gt"
    /\ ~AboveRange(ang)
    /\ ang_pc' = "while_lt"
    /\ UNCHANGED <<ang_in, ang, ang_iter>>

\* while ang < 0: ang += 360
AngAdd ==
    /\ ang_pc = "while_lt"
    /\ BelowRange(ang)
    /\ ang' = ang + FullTurn
    /\ ang_iter' = ang_iter + 1
    /\ UNCHANGED <<ang_in, ang_pc>>

\* The second loop's condition is false: return ang
AngReturn ==
    /\ ang_pc = "while_lt"
    /\ ~BelowRange(ang)
    /\ ang_pc' = "done"
    /\ UNCHANGED <<ang_in, ang, ang_iter>>

NextAngle ==
    \/ AngSubtract /\ UNCHANGED <<segvars, intvars>>
    \/ AngFirstLoopExit /\ UNCHANGED <<segvars, intvars>>
    \/ AngAdd /\ UNCHANGED <<segvars, intvars>>
    \/ AngReturn /\ UNCHANGED <<segvars, intvars>>

SpecAngle == InitAngle /\ [][NextAngle]_vars

Abs(x) == IF x < 0 THEN -x ELSE x

RECURSIVE GCD(_, _)
GCD(a, b) == IF b = 0 THEN a ELSE GCD(b, a % b)

Rat(n, d) ==
    LET g == GCD(Abs(n), d)
    IN  [nan |-> FALSE, n |-> n \div g, d |-> d \div g]

NaN == [nan |-> TRUE, n |-> 0, d |-> 1]

Whole(v) == Rat(v, 1)

RLess(a, b) == a.n * b.d < b.n * a.d

\* the integer part of a fraction >= 0
Floor(a) == a.n \div a.d

\* ------------------------------------------------------------------------
\* Interpolators: inputs
\* ------------------------------------------------------------------------

\* Coordinate axes, strictly increasing: a uniform one, a uniform one with
\* another origin, spacing and length, and a non-uniform one
AxisSamples == { <<0, 1, 2>>, <<1, 3>>, <<0, 1, 3>> }

\* Coordinates of the query positions.  Against the axes above each of
\* them is a node of one axis and off the nodes, or outside the range, of
\* another: 0 lies below <<1, 3>>, 2 lies between the nodes of <<1, 3>> and
\* <<0, 1, 3>>, 3 lies above <<0, 1, 2>>.
QueryCoords == 0..3

GridKinds == {"plane", "ramp"}

\* The stored value at level l, latitude index i, longitude index j.
\* "plane" is the grid [[0,1,2],[1,2,3],[2,3,4]] at every level; "ramp"
\* has a different value at every node of every level, and is no plane.
GridValue(kind, l, i, j) ==
    CASE kind = "plane" -> (i - 1) + (j - 1)
      [] kind = "ramp"  -> 20 * l + 5 * (i - 1) + (j - 1) * (j - 1)

Grid(kind, ny, nx) ==
    [l \in 1..NLev |-> [i \in 1..ny |-> [j \in 1..nx |-> GridValue(kind, l, i, j)]]]

\* ------------------------------------------------------------------------
\* Interpolators: the library calls
\* ------------------------------------------------------------------------

\* np.searchsorted(axis, v): the number of axis values below v
SearchSorted(axis, v) == Cardinality({k \in 1..Len(axis) : axis[k] < v})

\* The piecewise linear map axis[i] -> i (0-based) at a value v inside the
\* axis range: the interval is found by searchsorted clipped to
\* [1, len - 1], then slope * (v - x_lo) + y_lo.
AxisIndex(axis, v) ==
    LET s  == SearchSorted(axis, v)
        hi == IF s < 1 THEN 1 ELSE IF s > Len(axis) - 1 THEN Len(axis) - 1 ELSE s
        lo == hi - 1
        x_lo == axis[lo + 1]
        x_hi == axis[hi + 1]
    IN  Rat((v - x_lo) + lo * (x_hi - x_lo), x_hi - x_lo)

\* Degree-1 interpolation of the 2-D field data at the fractional 0-based
\* index (r, c) inside the field: the four surrounding nodes weighted by the
\* fractional parts wr/r.d and wc/c.d; a neighbour of weight 0 is not read.
Bilinear(data, r, c) ==
    LET r0 == Floor(r)
        c0 == Floor(c)
        wr == r.n % r.d
        wc == c.n % c.d
        At(i, j) == data[i + 1][j + 1]
        Row(i) == IF wc = 0 THEN c.d * At(i, c0)
                  ELSE (c.d - wc) * At(i, c0) + wc * At(i, c0 + 1)
    IN  IF wr = 0 THEN Rat(Row(r0), c.d)
        ELSE Rat((r.d - wr) * Row(r0) + wr * Row(r0 + 1), r.d * c.d)

\* interp1d(axis, np.arange(len(axis)), bounds_error=False)(v): the index of
\* v, not-a-number outside [axis[0], axis[-1]]
Interp1dIndex(axis, v) ==
    IF v < axis[1] \/ v > axis[Len(axis)] THEN NaN ELSE AxisIndex(axis, v)

\* The index mapping without the axis origin: v / (axis[1] - axis[0])
UniformIndexNoOrigin(axis, v) ==
    LET d == axis[2] - axis[1]
    IN  IF d > 0 THEN Rat(v, d) ELSE Rat(-v, -d)

\* (v - axis[0]) / (axis[1] - axis[0])
UniformIndex(axis, v) ==
    LET d == axis[2] - axis[1]
    IN  IF d > 0 THEN Rat(v - axis[1], d) ELSE Rat(axis[1] - v, -d)

\* map_coordinates(data, [[r], [c]], order=1) at one position: mode is
\* 'constant' with cval 0.0, so a position outside the field gives 0; what
\* a not-a-number coordinate gives is not defined, junk stands for it.
MapCoordinate(data, r, c, junk) ==
    IF r.nan \/ c.nan THEN junk
    ELSE IF \/ r.n < 0 \/ RLess(Whole(Len(data) - 1), r)
            \/ c.n < 0 \/ RLess(Whole(Len(data[1]) - 1), c)
    THEN Whole(0)
    ELSE Bilinear(data, r, c)

\* The value bispev gives outside the knots is the value at the boundary
Clamp(axis, v) ==
    IF v < axis[1] THEN axis[1] ELSE IF v > axis[Len(axis)] THEN axis[Len(axis)] ELSE v

\* RectBivariateSpline(data3D_lats, data3D_lons, data, kx=1, ky=1) at (y, x)
SplineEval(data, y, x) ==
    Bilinear(data, AxisIndex(data3D_lats, Clamp(data3D_lats, y)),
                   AxisIndex(data3D_lons, Clamp(data3D_lons, x)))

\* interpolator(lats, lons): the full mesh, one row per latitude
SplineMesh(data) ==
    [a \in 1..Len(lats) |-> [b \in 1..Len(lons) |-> SplineEval(data, lats[a], lons[b])]]

\* .diagonal()
Diagonal(mesh) == [p \in 1..Len(mesh) |-> mesh[p][p]]

\* The mesh evaluation needs both coordinate arrays in non-decreasing order
\* (bispev's restriction x(i-1) <= x(i)); it raises otherwise.
NonDecreasing(q) == \A k \in 1..(Len(q) - 1) : q[k] <= q[k + 1]

\* np.ma.masked_invalid on one number
MaskedInvalid(x) == [val |-> x, m |-> x.nan]

\* ------------------------------------------------------------------------
\* Interpolators: the three functions
\* ------------------------------------------------------------------------

\* interpolate_vertsec: one mesh evaluation per level, its diagonal kept
Vertsec == [ml \in 1..Len(data3D) |-> Diagonal(SplineMesh(data3D[ml]))]

\* interpolate_vertsec2: the index coordinates from the first axis step,
\* then one map_coordinates per level
Vertsec2 ==
    LET ind_lats == [p \in 1..Len(lats) |-> UniformIndex(data3D_lats, lats[p])]
        ind_lons == [p \in 1..Len(lons) |-> UniformIndex(data3D_lons, lons[p])]
    IN  [ml \in 1..Len(data3D) |->
            [p \in 1..Len(lats) |-> MapCoordinate(data3D[ml], ind_lats[p], ind_lons[p], NaN)]]

\* The positions to blank taken from the latitude index alone
NanColumnsLatOnly(ind_lats, ind_lons) ==
    {p \in 1..Len(ind_lats) : ind_lats[p].nan}

\* np.isnan(ind_lats) | np.isnan(ind_lons): the positions to blank
NanColumns(ind_lats, ind_lons) ==
    {p \in 1..Len(ind_lats) : ind_lats[p].nan \/ ind_lons[p].nan}

\* The blanking applied to the first level only: curtain[0, cols] = np.nan
BlankFirstLevel(c, cols) ==
    [ml \in 1..Len(c) |->
        [p \in 1..Len(c[ml]) |-> IF ml = 1 /\ p \in cols THEN NaN ELSE c[ml][p]]]

\* curtain[:, cols] = np.nan
BlankColumns(c, cols) ==
    [ml \in 1..Len(c) |-> [p \in 1..Len(c[ml]) |-> IF p \in cols THEN NaN ELSE c[ml][p]]]

\* interp_lat(lats) and interp_lon(lons) of interpolate_vertsec3
LookupLats == [p \in 1..Len(lats) |-> Interp1dIndex(data3D_lats, lats[p])]

LookupLons == [p \in 1..Len(lons) |-> Interp1dIndex(data3D_lons, lons[p])]

\* interpolate_vertsec3: the index coordinates by lookup, one
\* map_coordinates per level (junk[ml] is what it gives at not-a-number
\* coordinates), the blanking of the columns without an index, the mask.
Vertsec3(junk) ==
    LET filled == [ml \in 1..Len(data3D) |->
                      [p \in 1..Len(lats) |->
                          MapCoordinate(data3D[ml], LookupLats[p], LookupLons[p], junk[ml])]]
        blanked == BlankColumns(filled, NanColumns(LookupLats, LookupLons))
    IN  [ml \in 1..Len(data3D) |-> [p \in 1..Len(lats) |-> MaskedInvalid(blanked[ml][p])]]

\* What map_coordinates may leave at a not-a-number coordinate
JunkValues == {NaN, Whole(0)}

\* One outcome per level for the positions with a not-a-number coordinate;
\* when there is no such position no outcome is drawn.
JunkChoices ==
    IF \E p \in 1..Len(lats) : LookupLats[p].nan \/ LookupLons[p].nan
    THEN [1..Len(data3D) -> JunkValues]
    ELSE {[ml \in 1..Len(data3D) |-> NaN]}

InitInterp ==
    /\ data3D_lats \in AxisSamples
    /\ data3D_lons \in AxisSamples
    /\ \E kind \in GridKinds : data3D = Grid(kind, Len(data3D_lats), Len(data3D_lons))
    /\ lats \in [1..PathLen -> QueryCoords]
    /\ lons \in [1..PathLen -> QueryCoords]
    /\ curtain = <<>>
    /\ int_fn = "none"
    /\ int_pc = "ready"
    /\ SegIdle
    /\ AngIdle

CallVertsec ==
    /\ int_pc = "ready"
    /\ NonDecreasing(lats) /\ NonDecreasing(lons)
    /\ curtain' = Vertsec
    /\ int_fn' = "vertsec"
    /\ int_pc' = "returned"
    /\ UNCHANGED <<data3D, data3D_lats, data3D_lons, lats, lons>>

\* interpolate_vertsec on a path whose latitudes or longitudes decrease
\* somewhere: the mesh evaluation raises
CallVertsecRaises ==
    /\ int_pc = "ready"
    /\ ~(NonDecreasing(lats) /\ NonDecreasing(lons))
    /\ int_fn' = "vertsec"
    /\ int_pc' = "raised"
    /\ UNCHANGED <<data3D, data3D_lats, data3D_lons, lats, lons, curtain>>

CallVertsec2 ==
    /\ int_pc = "ready"
    /\ curtain' = Vertsec2
    /\ int_fn' = "vertsec2"
    /\ int_pc' = "returned"
    /\ UNCHANGED <<data3D, data3D_lats, data3D_lons, lats, lons>>

CallVertsec3 ==
    /\ int_pc = "ready"
    /\ \E junk \in JunkChoices : curtain' = Vertsec3(junk)
    /\ int_fn' = "vertsec3"
    /\ int_pc' = "returned"
    /\ UNCHANGED <<data3D, data3D_lats, data3D_lons, lats, lons>>

NextInterp ==
    \/ CallVertsec /\ UNCHANGED <<segvars, angvars>>
    \/ CallVertsecRaises /\ UNCHANGED <<segvars, angvars>>
    \/ CallVertsec2 /\ UNCHANGED <<segvars, angvars>>
    \/ CallVertsec3 /\ UNCHANGED <<segvars, angvars>>

SpecInterp == InitInterp /\ [][NextInterp]_vars

\* ------------------------------------------------------------------------
\* Interpolators: properties
\* ------------------------------------------------------------------------

Levels == 1..Len(data3D)

Positions == 1..Len(lats)

\* v lies outside [axis[0], axis[-1]]
OutsideAxis(axis, v) == v < axis[1] \/ v > axis[Len(axis)]

\* The axis is evenly spaced
Uniform(axis) == \A k \in 1..(Len(axis) - 1) : axis[k + 1] - axis[k] = axis[2] - axis[1]

\* The number at curtain[l, p] (the data of the masked array for
\* interpolate_vertsec3)
CurtainValue(l, p) == IF int_fn = "vertsec3" THEN curtain[l][p].val ELSE curtain[l][p]

\* Position p returns the value stored at node (i, j) on every level
ReturnsNode(p, i, j) ==
    \A l \in Levels :
        /\ CurtainValue(l, p) = Whole(data3D[l][i][j])
        /\ int_fn = "vertsec3" => ~curtain[l][p].m

\* The grid meets the documented requirement of the function called:
\* interpolate_vertsec2 takes the index from the first axis step, so its
\* axes are evenly spaced.
GridAsDocumented ==
    int_fn = "vertsec2" => (Uniform(data3D_lats) /\ Uniform(data3D_lons))

\* C5: interpolate_vertsec3 never raises, and a query position whose
\* longitude lies outside [data3D_lons[0], data3D_lons[-1]] is masked at
\* every level, whatever its latitude.
C5_LonOutsideMasked ==
    int_fn = "vertsec3" =>
        /\ int_pc = "returned"
        /\ \A p \in Positions :
               OutsideAxis(data3D_lons, lons[p]) => \A l \in Levels : curtain[l][p].m

\* C5 witness: interpolate_vertsec3 has returned a curtain with a masked
\* column whose longitude is outside the axis and whose latitude is inside.
C5_Witness ==
    /\ int_fn = "vertsec3" /\ int_pc = "returned"
    /\ \E p \in Positions :
           /\ OutsideAxis(data3D_lons, lons[p])
           /\ ~OutsideAxis(data3D_lats, lats[p])
           /\ \A l \in Levels : curtain[l][p].m

\* C6: every column of the curtain of interpolate_vertsec3 is masked at
\* every level or at none.
C6_ColumnAllOrNothing ==
    (int_fn = "vertsec3" /\ int_pc = "returned") =>
        \A p \in Positions :
            \/ \A l \in Levels : curtain[l][p].m
            \/ \A l \in Levels : ~curtain[l][p].m

\* C6 witness: a curtain of interpolate_vertsec3 with one column masked at
\* every level and another valid at every level.
C6_Witness ==
    /\ int_fn = "vertsec3" /\ int_pc = "returned"
    /\ \E p \in Positions : \A l \in Levels : curtain[l][p].m
    /\ \E p \in Positions : \A l \in Levels : ~curtain[l][p].m

\* C7 (as stated): whichever interpolator is called on a grid it is
\* documented for, every query position on an exact grid node gets, at
\* every level, the value stored at that node.
C7_NodeValueAlways ==
    (int_pc \in {"returned", "raised"} /\ GridAsDocumented) =>
        \A p \in Positions :
            \A i \in 1..Len(data3D_lats) : \A j \in 1..Len(data3D_lons) :
                (lats[p] = data3D_lats[i] /\ lons[p] = data3D_lons[j]) =>
                    (int_pc = "returned" /\ ReturnsNode(p, i, j))

\* C7 (amended): a call raises only if it is interpolate_vertsec on a path
\* whose latitudes or longitudes are not in non-decreasing order; every
\* call that returns, on a grid the function is documented for, gives each
\* query position on an exact grid node the value stored there, at every
\* level.
C7_NodeValueWhenReturned ==
    /\ int_pc = "raised" =>
           (int_fn = "vertsec" /\ ~(NonDecreasing(lats) /\ NonDecreasing(lons)))
    /\ (int_pc = "returned" /\ GridAsDocumented) =>
        \A p \in Positions :
            \A i \in 1..Len(data3D_lats) : \A j \in 1..Len(data3D_lons) :
                (lats[p] = data3D_lats[i] /\ lons[p] = data3D_lons[j]) =>
                    ReturnsNode(p, i, j)

\* C7 witness: on lats = lons = [0, 1, 2] and the grid
\* [[0,1,2],[1,2,3],[2,3,4]], interpolate_vertsec2 has returned 2 for a
\* query at (1, 1).
C7_Witness ==
    /\ int_fn = "vertsec2" /\ int_pc = "returned"
    /\ data3D_lats = <<0, 1, 2>> /\ data3D_lons = <<0, 1, 2>>
    /\ data3D = Grid("plane", 3, 3)
    /\ lats[1] = 1 /\ lons[1] = 1
    /\ curtain[1][1] = Whole(2)

====
